---------------------------- MODULE Spec2Model ----------------------------
(***************************************************************************)
(* A model of the RAG chatbot of src/main.go: the chunker, the cosine      *)
(* scorer, the vector store with its JSON persistence, the two ingestion   *)
(* pipelines (ProcessPDF, ProcessTXT), retrieval (SearchSimilar) and Chat. *)
(*                                                                         *)
(* A Go string is a sequence of one-character strings (all characters of   *)
(* the model are ASCII, so len() in bytes is Len).  A float64 is an        *)
(* integer, and a cosine score is kept exactly as the pair (dot product,   *)
(* product of the squared norms); rounding is not modelled.                *)
(***************************************************************************)
EXTENDS Integers, Sequences, FiniteSets, TLC

VARIABLES
    vectorStore,  \* r.vectorStore: [Documents, ModelName]
    file,         \* the content of r.dbPath ("vectorstore.json") on disk
    pc,           \* the position of the single thread of control
    op,           \* the operation the thread is in, or last returned from
    result,       \* what the last operation returned
    pages,        \* ProcessPDF/ProcessTXT: the page texts being ingested
    pageNum,      \* ProcessPDF: index of the page being processed (0-based)
    chunks,       \* the chunks of the current page
    chunkIdx,     \* index of the next chunk to process (0-based)
    runs,         \* number of ingestion runs that reset the index so far
    origin,       \* history: for each stored document, the run and model it came from
    embedLog,     \* history: per chunk of the current run, what happened to it
    calls,        \* history: the backend and file calls made by the last operation
    arg           \* the arguments of the operation

vars == <<vectorStore, file, pc, op, result, pages, pageNum, chunks, chunkIdx,
          runs, origin, embedLog, calls, arg>>

-----------------------------------------------------------------------------
(* Bounds of the model *)

\* longest text, in characters, given to ChunkText in SpecChunk
MaxTextLen == 7
\* largest chunk size given to ChunkText in SpecChunk
MaxChunkSize == 3
\* most words of the regular texts given to ChunkText in SpecChunk
MaxWords == 9
\* most documents in the index in SpecSearch
MaxDocs == 4
\* most ingestion runs in one execution of Spec
MaxRuns == 2
\* most appended records in SpecRoundTrip
MaxAppend == 2

-----------------------------------------------------------------------------
(* Strings *)

Min(a, b) == IF a < b THEN a ELSE b

\* unicode.IsSpace, on the characters of the model
IsSpace(c) == c \in {" ", "\n", "\t"}

\* whether a word starts at position i of text
WordStart(text, i) == ~IsSpace(text[i]) /\ (i = 1 \/ IsSpace(text[i - 1]))

\* the last position of the word that starts at position i
WordEnd(text, i) ==
    CHOOSE e \in i..Len(text) :
        /\ (e = Len(text) \/ IsSpace(text[e + 1]))
        /\ \A j \in i..(e - 1) : ~IsSpace(text[j + 1])

\* the words that start in text[lo..hi], in order (bisection keeps the
\* evaluation shallow on long texts)
RECURSIVE FieldsIn(_, _, _)
FieldsIn(text, lo, hi) ==
    IF lo > hi THEN <<>>
    ELSE IF lo = hi
         THEN IF WordStart(text, lo)
              THEN <<SubSeq(text, lo, WordEnd(text, lo))>>
              ELSE <<>>
         ELSE LET mid == (lo + hi) \div 2
              IN  FieldsIn(text, lo, mid) \o FieldsIn(text, mid + 1, hi)

\* strings.Fields: the maximal runs of non-space characters
Fields(text) == FieldsIn(text, 1, Len(text))

RECURSIVE JoinIn(_, _, _, _)
JoinIn(words, sep, lo, hi) ==
    IF lo > hi THEN <<>>
    ELSE IF lo = hi THEN words[lo]
         ELSE LET mid == (lo + hi) \div 2
              IN  JoinIn(words, sep, lo, mid) \o sep \o JoinIn(words, sep, mid + 1, hi)

\* strings.Join
Join(words, sep) == JoinIn(words, sep, 1, Len(words))

\* strings.TrimSpace
TrimSpace(text) ==
    IF \A i \in 1..Len(text) : IsSpace(text[i]) THEN <<>>
    ELSE LET first == CHOOSE i \in 1..Len(text) :
                          ~IsSpace(text[i]) /\ \A j \in 1..(i - 1) : IsSpace(text[j])
             last  == CHOOSE i \in 1..Len(text) :
                          ~IsSpace(text[i]) /\ \A j \in (i + 1)..Len(text) : IsSpace(text[j])
         IN  SubSeq(text, first, last)

\* regexp ReplaceAllString(text, " ") for a pattern [class]+: every maximal
\* run of characters of the class becomes one space
ReplaceRuns(text, class) ==
    LET idx  == [i \in 1..Len(text) |-> i]
        kept == SelectSeq(idx, LAMBDA i : \/ text[i] \notin class
                                          \/ i = 1
                                          \/ text[i - 1] \notin class)
    IN  [k \in 1..Len(kept) |->
            IF text[kept[k]] \in class THEN " " ELSE text[kept[k]]]

\* the class \s of the first pattern of cleanText
ReSpace == {" ", "\n", "\t"}

\* the class [^\p{L}\p{N}\p{P}\p{Z}] of the second pattern of cleanText, on
\* the characters of the model: the control characters and the symbol "+"
ReNonPrintable == {"\n", "\t", "+"}

cleanText(text) ==
    TrimSpace(ReplaceRuns(ReplaceRuns(text, ReSpace), ReNonPrintable))

-----------------------------------------------------------------------------
(* The chunker *)

\* ChunkLoop without the break of line 146: the loop runs on until i passes
\* the end of the word list
RECURSIVE ChunkLoopNoBreak(_, _, _, _, _)
ChunkLoopNoBreak(words, i, chunkSize, overlap, acc) ==
    IF ~(i < Len(words)) THEN acc
    ELSE LET end   == IF i + chunkSize > Len(words) THEN Len(words) ELSE i + chunkSize
             chunk == Join(SubSeq(words, i + 1, end), <<" ">>)
         IN  ChunkLoopNoBreak(words, i + chunkSize - overlap, chunkSize, overlap,
                              Append(acc, chunk))

\* the for loop of ChunkText, from word index i on
RECURSIVE ChunkLoop(_, _, _, _, _)
ChunkLoop(words, i, chunkSize, overlap, acc) ==
    IF ~(i < Len(words)) THEN acc
    ELSE LET end   == IF i + chunkSize > Len(words) THEN Len(words) ELSE i + chunkSize
             chunk == Join(SubSeq(words, i + 1, end), <<" ">>)
         IN  IF end = Len(words)
             THEN Append(acc, chunk)
             ELSE ChunkLoop(words, i + chunkSize - overlap, chunkSize, overlap,
                            Append(acc, chunk))

ChunkText(text, chunkSize, overlap) ==
    LET words == Fields(text)
    IN  IF Len(words) <= chunkSize
        THEN <<text>>
        ELSE ChunkLoop(words, 0, chunkSize, overlap, <<>>)


-----------------------------------------------------------------------------
(* The embedding client *)

\* r.embedModel, set by NewRAGChatbot and never changed
embedModel == "nomic-embed-text"

\* GetEmbedding, given the backend's answer to the POST: the call fails when
\* the POST fails, when the body does not decode, or when it holds no
\* embedding; otherwise the first embedding is returned
GetEmbedding(resp) ==
    IF resp.kind = "post_error" THEN [vector |-> <<>>, err |-> TRUE]
    ELSE IF resp.kind = "malformed" THEN [vector |-> <<>>, err |-> TRUE]
    ELSE IF Len(resp.Embeddings) = 0 THEN [vector |-> <<>>, err |-> TRUE]
    ELSE [vector |-> resp.Embeddings[1], err |-> FALSE]

-----------------------------------------------------------------------------
(* The similarity scorer *)

Abs(n) == IF n < 0 THEN -n ELSE n

RECURSIVE SumProducts(_, _, _)
SumProducts(a, b, i) ==
    IF i > Len(a) THEN 0 ELSE a[i] * b[i] + SumProducts(a, b, i + 1)

\* A score is the real number num / sqrt(den), den > 0
ZeroScore == [num |-> 0, den |-> 1]

\* x > y on scores
ScoreGreater(x, y) == x.num * Abs(x.num) * y.den > y.num * Abs(y.num) * x.den

cosineSimilarity(a, b) ==
    IF Len(a) # Len(b) THEN ZeroScore
    ELSE LET dotProduct == SumProducts(a, b, 1)
             normA2     == SumProducts(a, a, 1)
             normB2     == SumProducts(b, b, 1)
         IN  IF normA2 = 0 \/ normB2 = 0 THEN ZeroScore
             ELSE [num |-> dotProduct, den |-> normA2 * normB2]

-----------------------------------------------------------------------------
(* Retrieval *)

\* the less function handed to sort.Slice with the comparison turned around
lessAscending(x, y) == ScoreGreater(y.Score, x.Score)

\* the less function handed to sort.Slice (lines 313-315)
less(x, y) == ScoreGreater(x.Score, y.Score)

\* sort.Slice is not stable: every order of the indices idxs of scored in
\* which no element is less than one before it is a possible outcome
RECURSIVE SortedOrders(_, _)
SortedOrders(scored, idxs) ==
    IF idxs = {} THEN {<<>>}
    ELSE UNION {{<<i>> \o rest : rest \in SortedOrders(scored, idxs \ {i})} :
                   i \in {i \in idxs : \A j \in idxs : ~less(scored[j], scored[i])}}

\* SearchSimilar: the possible returns, given the stored documents, the
\* backend's answer to the query's embedding request and topK
SearchSimilar(docs, resp, topK) ==
    LET emb == GetEmbedding(resp)
    IN  IF emb.err THEN {[docs |-> <<>>, err |-> TRUE]}
        ELSE LET scoredDocs == [i \in 1..Len(docs) |->
                                   [Document |-> docs[i],
                                    Score |-> cosineSimilarity(emb.vector, docs[i].Vector)]]
                 k == IF topK > Len(scoredDocs) THEN Len(scoredDocs) ELSE topK
             IN  {[docs |-> [i \in 1..k |-> scoredDocs[ord[i]].Document], err |-> FALSE] :
                     ord \in SortedOrders(scoredDocs, 1..Len(scoredDocs))}

-----------------------------------------------------------------------------
(* Persistence: the store as a JSON document *)

JNull == [t |-> "null"]
JStr(s) == [t |-> "str", s |-> s]
JNum(n) == [t |-> "num", n |-> n]
JArr(a) == [t |-> "arr", a |-> a]
\* an object is the sequence of its members, in the order written
JObj(members) == [t |-> "obj", o |-> members]

\* the zero value of the ID field (the empty string)
NoID == [prefix |-> ""]

\* the zero Document
ZeroDocument == [ID |-> NoID, Content |-> <<>>, Page |-> 0, Vector |-> <<>>]

\* MarshalDocument with the page written under another name than the
\* `json:"page"` the field is read back by
MarshalDocumentWrongTag(d) ==
    JObj(<<[k |-> "id", v |-> JStr(d.ID)],
           [k |-> "content", v |-> JStr(d.Content)],
           [k |-> "Page", v |-> JNum(d.Page)],
           [k |-> "vector", v |-> JArr([i \in 1..Len(d.Vector) |-> JNum(d.Vector[i])])]>>)

\* json.Marshal of a Document, by the field tags of lines 23-26
MarshalDocument(d) ==
    JObj(<<[k |-> "id", v |-> JStr(d.ID)],
           [k |-> "content", v |-> JStr(d.Content)],
           [k |-> "page", v |-> JNum(d.Page)],
           [k |-> "vector", v |-> JArr([i \in 1..Len(d.Vector) |-> JNum(d.Vector[i])])]>>)

\* json.MarshalIndent of the VectorStore, by the field tags of lines 30-31
MarshalStore(vs) ==
    JObj(<<[k |-> "documents",
            v |-> JArr([i \in 1..Len(vs.Documents) |-> MarshalDocument(vs.Documents[i])])],
           [k |-> "model_name", v |-> JStr(vs.ModelName)]>>)

HasKey(obj, key) == \E i \in 1..Len(obj.o) : obj.o[i].k = key

\* the member of obj named key (the last one, if it is repeated)
Member(obj, key) ==
    obj.o[CHOOSE i \in 1..Len(obj.o) :
              obj.o[i].k = key /\ \A j \in (i + 1)..Len(obj.o) : obj.o[j].k # key].v

\* json.Unmarshal of the member key of obj into a string or int field: a
\* value of the field's JSON type is stored, null (or no such member) leaves
\* the field as it is, and a value of another type is skipped and reported
\* as a type error while decoding goes on
DecodeField(obj, key, type, old) ==
    IF ~HasKey(obj, key) THEN [val |-> old, ok |-> TRUE]
    ELSE LET j == Member(obj, key)
         IN  IF j.t = "null" THEN [val |-> old, ok |-> TRUE]
             ELSE IF j.t # type THEN [val |-> old, ok |-> FALSE]
             ELSE [val |-> j, ok |-> TRUE]

\* json.Unmarshal of the member key of obj into a slice field: an array
\* replaces the slice, null sets it to nil, a value of another type is
\* skipped and reported.  The array's elements are returned undecoded
DecodeSlice(obj, key) ==
    IF ~HasKey(obj, key) THEN [kept |-> TRUE, elems |-> <<>>, ok |-> TRUE]
    ELSE LET j == Member(obj, key)
         IN  IF j.t = "null" THEN [kept |-> FALSE, elems |-> <<>>, ok |-> TRUE]
             ELSE IF j.t # "arr" THEN [kept |-> TRUE, elems |-> <<>>, ok |-> FALSE]
             ELSE [kept |-> FALSE, elems |-> j.a, ok |-> TRUE]

\* the "vector" member into the nil Vector of a zero Document
DecodeVector(obj) ==
    LET f == DecodeSlice(obj, "vector")
    IN  [val |-> [i \in 1..Len(f.elems) |->
                     IF f.elems[i].t = "num" THEN f.elems[i].n ELSE 0],
         ok  |-> f.ok /\ \A i \in 1..Len(f.elems) : f.elems[i].t \in {"num", "null"}]

\* json.Unmarshal of one element of "documents" into a zero Document
UnmarshalDocument(j) ==
    IF j.t = "null" THEN [val |-> ZeroDocument, ok |-> TRUE]
    ELSE IF j.t # "obj" THEN [val |-> ZeroDocument, ok |-> FALSE]
    ELSE LET id      == DecodeField(j, "id", "str", JStr(NoID))
             content == DecodeField(j, "content", "str", JStr(<<>>))
             page    == DecodeField(j, "page", "num", JNum(0))
             vector  == DecodeVector(j)
         IN  [val |-> [ID |-> id.val.s, Content |-> content.val.s,
                       Page |-> page.val.n, Vector |-> vector.val],
              ok  |-> id.ok /\ content.ok /\ page.ok /\ vector.ok]

\* json.Unmarshal(data, r.vectorStore): [store, err].  Invalid JSON is
\* rejected before anything is stored; a value of the wrong type is skipped,
\* the rest is decoded, and the first type error is returned
Unmarshal(data, store) ==
    IF data.kind # "json" THEN [store |-> store, err |-> TRUE]
    ELSE IF data.v.t = "null" THEN [store |-> store, err |-> FALSE]
    ELSE IF data.v.t # "obj" THEN [store |-> store, err |-> TRUE]
    ELSE LET docs  == DecodeSlice(data.v, "documents")
             items == [i \in 1..Len(docs.elems) |-> UnmarshalDocument(docs.elems[i])]
             name  == DecodeField(data.v, "model_name", "str", JStr(store.ModelName))
         IN  [store |-> [Documents |-> IF docs.kept
                                       THEN store.Documents
                                       ELSE [i \in 1..Len(items) |-> items[i].val],
                         ModelName |-> name.val.s],
              err   |-> ~(docs.ok /\ name.ok /\ \A i \in 1..Len(items) : items[i].ok)]

\* SaveVectorStore: [file, err], given what os.WriteFile does.  A failed
\* write leaves the file as it was or, once opened with O_TRUNC, cut short
SaveVectorStore(store, old, write) ==
    IF write = "ok"
    THEN [file |-> [kind |-> "json", v |-> MarshalStore(store)], err |-> FALSE]
    ELSE IF write = "open_failed"
    THEN [file |-> old, err |-> TRUE]
    ELSE [file |-> [kind |-> "garbage"], err |-> TRUE]

WriteOutcomes == {"ok", "open_failed", "write_failed"}

\* LoadVectorStore: [store, err], given whether os.ReadFile succeeds
LoadVectorStore(store, data, readOK) ==
    IF data.kind = "absent" THEN [store |-> store, err |-> TRUE]
    ELSE IF ~readOK THEN [store |-> store, err |-> TRUE]
    ELSE Unmarshal(data, store)

\* NewRAGChatbot: the store of a new chatbot
NewVectorStore == [Documents |-> <<>>, ModelName |-> ""]

-----------------------------------------------------------------------------
(* Ingestion *)

\* chunk size and overlap, in words (lines 224 and 454)
ChunkSize == 300
ChunkOverlap == 50
\* a chunk of fewer characters is skipped (lines 227 and 459)
MinChunkLen == 20
\* a page of at most this many characters is dropped (line 109)
MinPageLen == 50
\* a text file of fewer characters is refused (line 442)
MinTextLen == 50

\* A stand-in for the first four bytes of the MD5 digest of the chunk: a
\* number that depends on the chunk's text only
Digest4(chunk) ==
    31 * Len(chunk) + Cardinality({i \in 1..Len(chunk) : chunk[i] = "a"})

\* fmt.Sprintf("page_%d_chunk_%d_%x", pageNum+1, chunkIdx, digest) (line 234)
PdfDocID(pNum, cIdx, chunk) ==
    [prefix |-> "page", page |-> pNum + 1, chunk |-> cIdx, digest |-> Digest4(chunk)]

\* fmt.Sprintf("txt_chunk_%d_%x", chunkIdx, digest) (line 466)
TxtDocID(cIdx, chunk) ==
    [prefix |-> "txt_chunk", chunk |-> cIdx, digest |-> Digest4(chunk)]

\* ExtractTextFromPDF: [pages, err].  A page that is null or whose text
\* cannot be extracted is passed over, and so is a page whose cleaned text
\* has no more than MinPageLen characters
ExtractTextFromPDF(f) ==
    IF ~f.openable THEN [pages |-> <<>>, err |-> TRUE]
    ELSE LET cleaned == [i \in 1..Len(f.pages) |->
                            IF f.pages[i].kind = "text"
                            THEN cleanText(f.pages[i].text) ELSE <<>>]
             kept == SelectSeq([i \in 1..Len(f.pages) |-> i],
                               LAMBDA i : /\ f.pages[i].kind = "text"
                                          /\ Len(cleaned[i]) > MinPageLen)
         IN  [pages |-> [k \in 1..Len(kept) |-> cleaned[kept[k]]], err |-> FALSE]

\* the reset of line 217 (and 449) done before the source is read
StoreResetFirst(store, failed) == [store EXCEPT !.Documents = <<>>]

\* StoreAfterRead without the reset
StoreNeverReset(store, failed) == store

\* the store once the source has been read: an ingestion that fails to read
\* its source returns before the reset of line 217 (and 449)
StoreAfterRead(store, failed) ==
    IF failed THEN store ELSE [store EXCEPT !.Documents = <<>>]

\* the body of the chunk loop with the continue of line 242 left out: a
\* record is appended whether or not the embedding request succeeded
EmbedChunkNoSkip(store, docID, chunk, page, resp) ==
    LET emb == GetEmbedding(resp)
    IN  IF Len(TrimSpace(chunk)) < MinChunkLen
        THEN [store |-> store, outcome |-> "short"]
        ELSE [store |-> [store EXCEPT !.Documents =
                            Append(@, [ID |-> docID, Content |-> chunk,
                                       Page |-> page, Vector |-> emb.vector])],
              outcome |-> IF emb.err THEN "failed" ELSE "embedded"]

\* the body of the chunk loop (lines 227-252 and 459-486): [store, outcome]
EmbedChunk(store, docID, chunk, page, resp) ==
    LET emb == GetEmbedding(resp)
    IN  IF Len(TrimSpace(chunk)) < MinChunkLen
        THEN [store |-> store, outcome |-> "short"]
        ELSE IF emb.err
        THEN [store |-> store, outcome |-> "failed"]
        ELSE [store |-> [store EXCEPT !.Documents =
                            Append(@, [ID |-> docID, Content |-> chunk,
                                       Page |-> page, Vector |-> emb.vector])],
              outcome |-> "embedded"]

\* the length check of ProcessTXT (line 442)
TextTooShort(cleanedText) == Len(TrimSpace(cleanedText)) < MinTextLen

-----------------------------------------------------------------------------
(* Answering *)

\* the k of Chat's call of SearchSimilar (line 398)
ChatTopK == 4

PleaseLoadMessage == "Per favore, carica prima un documento PDF."

\* GenerateResponse, given the backend's answer to the POST: [text, err]
GenerateResponse(resp) ==
    IF resp.kind = "post_error" THEN [text |-> "", err |-> TRUE]
    ELSE IF resp.kind = "malformed" THEN [text |-> "", err |-> TRUE]
    ELSE [text |-> resp.Response, err |-> FALSE]

\* Chat from line 397 on, given the backends' answers: the possible returns,
\* each with the backend calls made, in order
ChatNonEmpty(store, embResp, genResp) ==
    {IF s.err
     THEN [answer |-> "", sources |-> <<>>, err |-> "embed", calls |-> <<"embed">>]
     ELSE LET g == GenerateResponse(genResp)
          IN  IF g.err
              THEN [answer |-> "", sources |-> <<>>, err |-> "generate",
                    calls |-> <<"embed", "generate">>]
              ELSE [answer |-> g.text, sources |-> s.docs, err |-> "nil",
                    calls |-> <<"embed", "generate">>] :
        s \in SearchSimilar(store.Documents, embResp, ChatTopK)}

\* Chat without the check of line 393
ChatUnguarded(store, embResp, genResp) == ChatNonEmpty(store, embResp, genResp)

\* Chat: the possible returns, each with the backend calls made, in order
Chat(store, embResp, genResp) ==
    IF Len(store.Documents) = 0
    THEN {[answer |-> PleaseLoadMessage, sources |-> <<>>, err |-> "nil", calls |-> <<>>]}
    ELSE ChatNonEmpty(store, embResp, genResp)

-----------------------------------------------------------------------------
(* Values of the variables an operation does not use *)

NoFile == [kind |-> "absent"]

-----------------------------------------------------------------------------
(* The inputs of the model: texts, source files, backend answers *)

\* the k-th word of a regular text
Word(k) == IF k % 3 = 1 THEN <<"a">> ELSE IF k % 3 = 2 THEN <<"b">> ELSE <<"a", "b">>

\* a text of w words separated by single spaces
WordsText(w) == Join([k \in 1..w |-> Word(k)], <<" ">>)

\* the vectors the embedding backend answers with
EmbedVectors == {<<1, 0>>, <<0, 1>>}

\* the answers of the embedding backend, for the vectors vecs
EmbeddingResponses(vecs) ==
    {[kind |-> "post_error"], [kind |-> "malformed"],
     [kind |-> "ok", Embeddings |-> <<>>]}
    \cup {[kind |-> "ok", Embeddings |-> <<v>>] : v \in vecs}

\* the answers of the generation backend
GenerationResponses ==
    {[kind |-> "post_error"], [kind |-> "malformed"],
     [kind |-> "ok", Response |-> "risposta", Done |-> TRUE]}

\* The text files ProcessTXT is given.  WordsText(22) has 50 characters
TxtFiles ==
    [unreadable |-> [readable |-> FALSE, raw |-> <<>>],
     tiny       |-> [readable |-> TRUE, raw |-> <<"\n", " ", "a", "+", "b", "\t">>],
     chars49    |-> [readable |-> TRUE, raw |-> WordsText(21) \o <<"b">>],
     chars50    |-> [readable |-> TRUE, raw |-> <<" ">> \o WordsText(22) \o <<"\n">>],
     words301   |-> [readable |-> TRUE, raw |-> WordsText(301)]]

\* The PDF files ProcessPDF is given, each page null, unextractable or a
\* text.  WordsText(22) \o <<"a">> has 51 characters
PdfFiles ==
    [unopenable |-> [openable |-> FALSE, pages |-> <<>>],
     shortpages |-> [openable |-> TRUE,
                     pages |-> <<[kind |-> "text", text |-> <<"a", "+", "b">>],
                                 [kind |-> "null"]>>],
     fourpages  |-> [openable |-> TRUE,
                     pages |-> <<[kind |-> "text", text |-> WordsText(22) \o <<"a">>],
                                 [kind |-> "error"],
                                 [kind |-> "text", text |-> WordsText(22)],
                                 [kind |-> "text", text |-> WordsText(301)]>>]]

\* ExtractTextFromPDF on each PDF file of the model
PdfExtracts == [name \in DOMAIN PdfFiles |-> ExtractTextFromPDF(PdfFiles[name])]

\* cleanText on each text file of the model (line 440)
TxtCleaned == [name \in DOMAIN TxtFiles |-> cleanText(TxtFiles[name].raw)]

\* the texts the ingestion runs of the model hand to the chunker
IngestTexts ==
    {TxtCleaned[name] : name \in DOMAIN TxtFiles}
    \cup UNION {{PdfExtracts[name].pages[i] : i \in 1..Len(PdfExtracts[name].pages)} :
                   name \in DOMAIN PdfFiles}

\* r.ChunkText(text, 300, 50) on each of them (lines 224 and 454)
PageChunks == [t \in IngestTexts |-> ChunkText(t, ChunkSize, ChunkOverlap)]

\* a record as a run of another embedding model left it in the file
StoredDoc ==
    [ID |-> PdfDocID(0, 0, <<"a">>), Content |-> <<"a">>, Page |-> 1, Vector |-> <<1, 1>>]

\* What r.dbPath holds when the process starts: nothing, a file cut short,
\* a store saved earlier, and two JSON documents of another shape (a page
\* that is a string, a model_name that is a number)
InitialFiles ==
    {NoFile,
     [kind |-> "garbage"],
     [kind |-> "json",
      v |-> MarshalStore([Documents |-> <<StoredDoc>>, ModelName |-> "mxbai-embed-large"])],
     [kind |-> "json",
      v |-> JObj(<<[k |-> "documents",
                    v |-> JArr(<<JObj(<<[k |-> "id", v |-> JStr(StoredDoc.ID)],
                                        [k |-> "content", v |-> JStr(StoredDoc.Content)],
                                        [k |-> "page", v |-> JStr("1")],
                                        [k |-> "vector", v |-> JArr(<<JNum(1), JNum(1)>>)]>>)>>)],
                   [k |-> "model_name", v |-> JStr("mxbai-embed-large")]>>)],
     [kind |-> "json",
      v |-> JObj(<<[k |-> "documents", v |-> JArr(<<MarshalDocument(StoredDoc)>>)],
                   [k |-> "model_name", v |-> JNum(5)]>>)]}

\* the model a file names, if it names one
FileModelName(data) ==
    IF data.kind = "json" /\ data.v.t = "obj" /\ HasKey(data.v, "model_name")
       /\ Member(data.v, "model_name").t = "str"
    THEN Member(data.v, "model_name").s
    ELSE "(none)"

-----------------------------------------------------------------------------
(* Spec: the process, from its start to the end of the interactive loop:   *)
(* the startup load and the ingestion runs, which are all that writes the  *)
(* store and the file.  Chat and SearchSimilar only read the store; they   *)
(* are applied to bounded stores in SpecChat and SpecSearch.               *)

Init ==
    /\ vectorStore = NewVectorStore
    /\ file \in InitialFiles
    /\ pc = "probe"
    /\ op = "main"
    /\ result = [err |-> "nil"]
    /\ pages = <<>> /\ pageNum = 0 /\ chunks = <<>> /\ chunkIdx = 0
    /\ runs = 0 /\ origin = <<>>
    /\ embedLog = <<>> /\ calls = <<>>
    /\ arg = [kind |-> "none"]

\* main, lines 506-508: the process goes on only if Ollama answers
CheckOllamaAvailable ==
    /\ pc = "probe"
    /\ \E available \in BOOLEAN :
          /\ pc' = IF available THEN "load" ELSE "fatal"
          /\ result' = [err |-> IF available THEN "nil" ELSE "ollama"]
    /\ op' = "CheckOllamaAvailable"
    /\ UNCHANGED <<vectorStore, file, pages, pageNum, chunks, chunkIdx,
                   runs, origin, embedLog, calls, arg>>

\* main, lines 513-517: the store is loaded, and the loop is entered whether
\* or not the load failed
LoadAtStartup ==
    /\ pc = "load"
    /\ \E readOK \in BOOLEAN :
          LET l == LoadVectorStore(vectorStore, file, readOK)
          IN  /\ vectorStore' = l.store
              /\ result' = [err |-> IF l.err THEN "load" ELSE "nil"]
              /\ origin' = [i \in 1..Len(l.store.Documents) |->
                               [run |-> 0, model |-> FileModelName(file)]]
    /\ op' = "LoadVectorStore"
    /\ pc' = "menu"
    /\ UNCHANGED <<file, pages, pageNum, chunks, chunkIdx, runs, embedLog, calls, arg>>

\* ProcessPDF, lines 208-220
PDFStart ==
    /\ pc = "menu"
    /\ runs < MaxRuns
    /\ \E name \in DOMAIN PdfFiles :
          LET ext == PdfExtracts[name]
          IN  /\ arg' = [kind |-> "pdf", name |-> name]
              /\ vectorStore' = StoreAfterRead(vectorStore, ext.err)
              /\ origin' = [i \in 1..Len(vectorStore'.Documents) |-> origin[i]]
              /\ pages' = ext.pages
              /\ result' = [err |-> IF ext.err THEN "pdf_open" ELSE "pending"]
              /\ pc' = IF ext.err THEN "menu" ELSE "pdf_page"
              /\ runs' = IF ext.err THEN runs ELSE runs + 1
    /\ op' = "ProcessPDF"
    /\ pageNum' = 0 /\ chunks' = <<>> /\ chunkIdx' = 0
    /\ embedLog' = <<>> /\ calls' = <<>>
    /\ UNCHANGED file

\* ProcessPDF, lines 222-224: the next page is chunked, or the loop ends
PDFPage ==
    /\ pc = "pdf_page"
    /\ IF pageNum < Len(pages)
       THEN /\ chunks' = PageChunks[pages[pageNum + 1]]
            /\ pc' = "pdf_chunk"
       ELSE /\ chunks' = <<>>
            /\ pc' = "finish"
    /\ chunkIdx' = 0
    /\ UNCHANGED <<vectorStore, file, op, result, pages, pageNum, runs, origin,
                   embedLog, calls, arg>>

\* ProcessPDF, lines 226-257: one chunk of the page
PDFChunk ==
    /\ pc = "pdf_chunk"
    /\ chunkIdx < Len(chunks)
    /\ \E resp \in EmbeddingResponses(EmbedVectors) :
          LET chunk == chunks[chunkIdx + 1]
              e == EmbedChunk(vectorStore, PdfDocID(pageNum, chunkIdx, chunk),
                              chunk, pageNum + 1, resp)
          IN  /\ vectorStore' = e.store
              /\ origin' = IF Len(e.store.Documents) > Len(vectorStore.Documents)
                           THEN Append(origin, [run |-> runs, model |-> embedModel])
                           ELSE origin
              /\ embedLog' = Append(embedLog, [page |-> pageNum + 1, idx |-> chunkIdx,
                                               outcome |-> e.outcome,
                                               vector |-> GetEmbedding(resp).vector])
              /\ calls' = IF e.outcome = "short" THEN calls ELSE Append(calls, "embed")
    /\ chunkIdx' = chunkIdx + 1
    /\ UNCHANGED <<file, pc, op, result, pages, pageNum, chunks, runs, arg>>

\* ProcessPDF, line 226: the chunks of the page are done
PDFChunksDone ==
    /\ pc = "pdf_chunk"
    /\ ~(chunkIdx < Len(chunks))
    /\ pageNum' = pageNum + 1
    /\ pc' = "pdf_page"
    /\ UNCHANGED <<vectorStore, file, op, result, pages, chunks, chunkIdx, runs,
                   origin, embedLog, calls, arg>>

\* ProcessTXT, lines 428-456
TXTStart ==
    /\ pc = "menu"
    /\ runs < MaxRuns
    /\ \E name \in DOMAIN TxtFiles :
          LET f == TxtFiles[name]
              cleanedText == TxtCleaned[name]
              failed == ~f.readable \/ TextTooShort(cleanedText)
          IN  /\ arg' = [kind |-> "txt", name |-> name]
              /\ vectorStore' = StoreAfterRead(vectorStore, failed)
              /\ origin' = [i \in 1..Len(vectorStore'.Documents) |-> origin[i]]
              /\ pages' = IF failed THEN <<>> ELSE <<cleanedText>>
              /\ chunks' = IF failed THEN <<>>
                           ELSE PageChunks[cleanedText]
              /\ result' = [err |-> IF ~f.readable THEN "txt_read"
                                    ELSE IF failed THEN "txt_short" ELSE "pending"]
              /\ pc' = IF failed THEN "menu" ELSE "txt_chunk"
              /\ runs' = IF failed THEN runs ELSE runs + 1
    /\ op' = "ProcessTXT"
    /\ pageNum' = 0 /\ chunkIdx' = 0
    /\ embedLog' = <<>> /\ calls' = <<>>
    /\ UNCHANGED file

\* ProcessTXT, lines 458-490: one chunk of the text
TXTChunk ==
    /\ pc = "txt_chunk"
    /\ chunkIdx < Len(chunks)
    /\ \E resp \in EmbeddingResponses(EmbedVectors) :
          LET chunk == chunks[chunkIdx + 1]
              e == EmbedChunk(vectorStore, TxtDocID(chunkIdx, chunk), chunk, 1, resp)
          IN  /\ vectorStore' = e.store
              /\ origin' = IF Len(e.store.Documents) > Len(vectorStore.Documents)
                           THEN Append(origin, [run |-> runs, model |-> embedModel])
                           ELSE origin
              /\ embedLog' = Append(embedLog, [page |-> 1, idx |-> chunkIdx,
                                               outcome |-> e.outcome,
                                               vector |-> GetEmbedding(resp).vector])
              /\ calls' = IF e.outcome = "short" THEN calls ELSE Append(calls, "embed")
    /\ chunkIdx' = chunkIdx + 1
    /\ UNCHANGED <<file, pc, op, result, pages, pageNum, chunks, runs, arg>>

\* ProcessTXT, line 458: the chunks of the text are done
TXTChunksDone ==
    /\ pc = "txt_chunk"
    /\ ~(chunkIdx < Len(chunks))
    /\ pc' = "finish"
    /\ UNCHANGED <<vectorStore, file, op, result, pages, pageNum, chunks, chunkIdx,
                   runs, origin, embedLog, calls, arg>>

\* ProcessPDF, lines 260-263, and ProcessTXT, lines 492-495: the model name
\* is set, the store is saved, and what the save returns is returned
Finish ==
    /\ pc = "finish"
    /\ \E write \in WriteOutcomes :
          LET named == [vectorStore EXCEPT !.ModelName = embedModel]
              saved == SaveVectorStore(named, file, write)
          IN  /\ vectorStore' = named
              /\ file' = saved.file
              /\ result' = [err |-> IF saved.err THEN "save" ELSE "nil"]
              /\ calls' = Append(calls, IF write = "ok" THEN "write" ELSE "write_failed")
    /\ pc' = "menu"
    /\ pages' = <<>> /\ pageNum' = 0 /\ chunks' = <<>> /\ chunkIdx' = 0
    /\ UNCHANGED <<op, runs, origin, embedLog, arg>>

\* main, lines 615-617
Exit ==
    /\ pc = "menu"
    /\ pc' = "exit"
    /\ op' = "Exit"
    /\ UNCHANGED <<vectorStore, file, result, pages, pageNum, chunks, chunkIdx,
                   runs, origin, embedLog, calls, arg>>

Next ==
    \/ CheckOllamaAvailable
    \/ LoadAtStartup
    \/ PDFStart
    \/ PDFPage
    \/ PDFChunk
    \/ PDFChunksDone
    \/ TXTStart
    \/ TXTChunk
    \/ TXTChunksDone
    \/ Finish
    \/ Exit

Spec == Init /\ [][Next]_vars

-----------------------------------------------------------------------------
(* Claims about the ingestion runs and the startup load *)

Ingestions == {"ProcessPDF", "ProcessTXT"}

\* the operation has returned to the loop
Returned(o) == pc = "menu" /\ op = o

\* an ingestion run went through its chunk loop and returned
RunCompleted == pc = "menu" /\ op \in Ingestions /\ result.err \in {"nil", "save"}

\* the source of ingestion a cannot be opened or read
SourceUnreadable(a) ==
    \/ a.kind = "pdf" /\ ~PdfFiles[a.name].openable
    \/ a.kind = "txt" /\ ~TxtFiles[a.name].readable

\* the length of the cleaned text of each source
SourceTextLen ==
    [kind \in {"pdf", "txt"} |->
        IF kind = "txt"
        THEN [name \in DOMAIN TxtFiles |-> Len(TxtCleaned[name])]
        ELSE [name \in DOMAIN PdfFiles |->
                 LET texts == SelectSeq(PdfFiles[name].pages, LAMBDA pg : pg.kind = "text")
                 IN  Len(cleanText(Join([i \in 1..Len(texts) |-> texts[i].text], <<" ">>)))]]

\* the source of ingestion a can be read and holds fewer than 50 characters
\* of text after cleanup
SourceTooShort(a) == ~SourceUnreadable(a) /\ SourceTextLen[a.kind][a.name] < 50

\* the page texts ingestion a works on
SourcePages(a) ==
    IF a.kind = "pdf" THEN PdfExtracts[a.name].pages ELSE <<TxtCleaned[a.name]>>

\* every chunk of the pages pgs from page p on, in page order and then chunk
\* order
RECURSIVE ChunksFrom(_, _)
ChunksFrom(pgs, p) ==
    IF p > Len(pgs) THEN <<>>
    ELSE [i \in 1..Len(PageChunks[pgs[p]]) |->
             [page |-> p, idx |-> i - 1, chunk |-> PageChunks[pgs[p]][i]]]
         \o ChunksFrom(pgs, p + 1)

\* the record the run makes of chunk c with vector v
RecordOf(a, c, v) ==
    [ID |-> IF a.kind = "pdf" THEN PdfDocID(c.page - 1, c.idx, c.chunk)
                              ELSE TxtDocID(c.idx, c.chunk),
     Content |-> c.chunk, Page |-> c.page, Vector |-> v]

\* The run went through every chunk of every page, and the index holds, in
\* page order and then chunk order, exactly one record for each chunk of
\* trimmed length >= 20 whose embedding request succeeded
ExactlyTheEmbeddedChunks ==
    LET all  == ChunksFrom(SourcePages(arg), 1)
        kept == SelectSeq([i \in 1..Len(embedLog) |-> i],
                          LAMBDA i : embedLog[i].outcome = "embedded")
    IN  /\ Len(embedLog) = Len(all)
        /\ \A i \in 1..Len(all) :
              /\ embedLog[i].page = all[i].page
              /\ embedLog[i].idx = all[i].idx
              /\ (embedLog[i].outcome = "short") = (Len(TrimSpace(all[i].chunk)) < 20)
        /\ vectorStore.Documents =
              [k \in 1..Len(kept) |-> RecordOf(arg, all[kept[k]], embedLog[kept[k]].vector)]

SomeEmbeddingFailed == \E i \in 1..Len(embedLog) : embedLog[i].outcome = "failed"

LastWriteFailed == Len(calls) > 0 /\ calls[Len(calls)] = "write_failed"

\* C3: once an ingestion run has reset the index, every record in the index
\* was appended by that run: none loaded from the file, none of an earlier run.
C3_WholesaleReplace ==
    runs > 0 =>
        /\ Len(origin) = Len(vectorStore.Documents)
        /\ \A i \in 1..Len(origin) : origin[i].run = runs

\* C3 witness: the second run is appending, after a first run saved records
C3_Witness ==
    /\ runs = 2
    /\ pc \in {"pdf_chunk", "txt_chunk"}
    /\ Len(vectorStore.Documents) >= 1
    /\ file.kind = "json"
    /\ FileModelName(file) = embedModel
    /\ Len(Member(file.v, "documents").a) >= 1

\* C4 as claimed: when embedding requests fail during a run, the run goes
\* through every chunk, the index holds exactly the records of the chunks
\* that were embedded, the run returns success and the index is persisted.
C4_AsClaimed ==
    (RunCompleted /\ SomeEmbeddingFailed) =>
        /\ ExactlyTheEmbeddedChunks
        /\ result.err = "nil"
        /\ file = [kind |-> "json", v |-> MarshalStore(vectorStore)]

\* C4 as amended: when embedding requests fail during a run, the run goes
\* through every chunk and the index holds exactly the records of the
\* chunks that were embedded; the run returns what SaveVectorStore returns:
\* success with the index persisted, or the error of the failed write.
C4_PartialFailureTolerated ==
    (RunCompleted /\ SomeEmbeddingFailed) =>
        /\ ExactlyTheEmbeddedChunks
        /\ IF LastWriteFailed
           THEN result.err = "save"
           ELSE /\ result.err = "nil"
                /\ file = [kind |-> "json", v |-> MarshalStore(vectorStore)]

\* C4 witness: a run in which a chunk failed, a later chunk of a later page
\* was embedded, and the index was saved
C4_Witness ==
    /\ RunCompleted /\ result.err = "nil"
    /\ \E i, j \in 1..Len(embedLog) :
          /\ i < j
          /\ embedLog[i].outcome = "failed"
          /\ embedLog[j].outcome = "embedded"
          /\ embedLog[i].page < embedLog[j].page
    /\ Len(vectorStore.Documents) = 2

\* C5: an ingestion attempt whose source cannot be opened or read returns
\* the failure and leaves the documents, the model name and the file as
\* they were.
C5_FailedReadLeavesIndex ==
    [][(pc = "menu" /\ op' \in Ingestions /\ SourceUnreadable(arg'))
          => /\ pc' = "menu"
             /\ result'.err \in {"pdf_open", "txt_read"}
             /\ vectorStore' = vectorStore
             /\ file' = file]_vars

\* C5 witness: an attempt failed on a source that cannot be read, with
\* records in the index and a saved file
C5_Witness ==
    /\ pc = "menu" /\ op \in Ingestions
    /\ result.err \in {"pdf_open", "txt_read"}
    /\ Len(vectorStore.Documents) >= 1
    /\ file.kind = "json"

\* C6 as claimed: an ingestion run returns a failure exactly when its source
\* cannot be read or holds fewer than 50 characters after cleanup.
C6_AsClaimed ==
    (pc = "menu" /\ op \in Ingestions) =>
        ((result.err # "nil") <=> (SourceUnreadable(arg) \/ SourceTooShort(arg)))

\* What the code does where C6 fails: an ingestion run returns a failure
\* exactly when its source cannot be read, when it is a text file of fewer
\* than 50 characters after cleanup, or when the save that ends the run
\* fails; ProcessPDF has no length check of its own.
HardFailuresOfTheCode ==
    (pc = "menu" /\ op \in Ingestions) =>
        /\ (result.err # "nil") <=>
              \/ SourceUnreadable(arg)
              \/ arg.kind = "txt" /\ SourceTooShort(arg)
              \/ LastWriteFailed
        /\ SourceUnreadable(arg) => result.err \in {"pdf_open", "txt_read"}
        /\ (arg.kind = "txt" /\ SourceTooShort(arg)) => result.err = "txt_short"

\* C6 failing input: ProcessPDF on a PDF with fewer than 50 characters of
\* text, run on an index that held records, returned success; the index is
\* empty and the file holds the empty index
C6_ShortPdfSucceeds ==
    /\ Returned("ProcessPDF")
    /\ SourceTooShort(arg)
    /\ result.err = "nil"
    /\ runs = 2
    /\ Len(vectorStore.Documents) = 0
    /\ file = [kind |-> "json", v |-> MarshalStore(vectorStore)]

\* C7 as claimed: whenever LoadVectorStore returns an error at startup, the
\* process enters the loop with an index that has no documents.
C7_LoadFailureStartsEmpty ==
    (Returned("LoadVectorStore") /\ result.err = "load") =>
        Len(vectorStore.Documents) = 0

\* C7 failing input: LoadVectorStore returned an error at startup and the
\* index holds a record of the file
C7_PartialLoad ==
    /\ Returned("LoadVectorStore")
    /\ result.err = "load"
    /\ Len(vectorStore.Documents) >= 1

\* C8 as claimed: between operations, when the index is not empty, every
\* stored vector was produced by, or loaded together with, the model that
\* model_name names.
C8_ModelNameNamesVectors ==
    (pc = "menu" /\ Len(vectorStore.Documents) > 0) =>
        /\ Len(origin) = Len(vectorStore.Documents)
        /\ \A i \in 1..Len(origin) : origin[i].model = vectorStore.ModelName

\* C8 failing input: after a load that returned an error the index holds
\* vectors and model_name is empty
C8_VectorsWithoutModel ==
    /\ pc = "menu"
    /\ Len(vectorStore.Documents) >= 1
    /\ vectorStore.ModelName = ""
    /\ \A i \in 1..Len(origin) : origin[i].run = 0

-----------------------------------------------------------------------------
(* SpecChunk: ChunkText applied to bounded inputs *)

ChunkAlphabet == {" ", "a", "b"}

ChunkInputs ==
    {[text |-> t, chunkSize |-> s, overlap |-> o] :
        t \in UNION {[1..n -> ChunkAlphabet] : n \in 0..MaxTextLen},
        s \in 1..MaxChunkSize, o \in 0..(MaxChunkSize - 1)}
    \cup {[text |-> WordsText(w), chunkSize |-> s, overlap |-> o] :
        w \in 1..MaxWords, s \in 1..MaxChunkSize, o \in 0..(MaxChunkSize - 1)}
    \cup {[text |-> WordsText(700), chunkSize |-> 300, overlap |-> 50]}

InitChunk ==
    /\ arg \in {a \in ChunkInputs : a.chunkSize > a.overlap}
    /\ pc = "call"
    /\ op = "ChunkText"
    /\ result = <<>>
    /\ vectorStore = NewVectorStore
    /\ file = NoFile
    /\ pages = <<>> /\ pageNum = 0 /\ chunks = <<>> /\ chunkIdx = 0
    /\ runs = 0 /\ origin = <<>>
    /\ embedLog = <<>> /\ calls = <<>>

CallChunkText ==
    /\ pc = "call"
    /\ op = "ChunkText"
    /\ result' = ChunkText(arg.text, arg.chunkSize, arg.overlap)
    /\ pc' = "done"
    /\ UNCHANGED <<vectorStore, file, op, pages, pageNum, chunks, chunkIdx,
                   runs, origin, embedLog, calls, arg>>

NextChunk == CallChunkText

SpecChunk == InitChunk /\ [][NextChunk]_vars

\* ceil(a / b) for a >= 0, b > 0
CeilDiv(a, b) == (a + b - 1) \div b

\* the word positions (0-based) of the i-th window of the sliding formula
Window(i, w, s, o) == (i * (s - o))..(Min(i * (s - o) + s, w) - 1)

\* C1: for every text of w words, size s and overlap o with s > o >= 0,
\* ChunkText returns one chunk when w <= s, and otherwise
\* ceil((w-s)/(s-o)) + 1 chunks, chunk i being the words of window i joined by
\* single spaces; the windows cover 0..w-1, consecutive windows share exactly
\* o words, and only the last window reaches the end of the word list.
C1_ChunkWindows ==
    (pc = "done" /\ op = "ChunkText") =>
        LET words == Fields(arg.text)
            w == Len(words)
            s == arg.chunkSize
            o == arg.overlap
            n == Len(result)
        IN  IF w <= s
            THEN n = 1
            ELSE /\ n = CeilDiv(w - s, s - o) + 1
                 /\ \A i \in 0..(n - 1) :
                       result[i + 1] =
                           Join([p \in 1..Cardinality(Window(i, w, s, o)) |->
                                    words[i * (s - o) + p]], <<" ">>)
                 /\ UNION {Window(i, w, s, o) : i \in 0..(n - 1)} = 0..(w - 1)
                 /\ \A i \in 0..(n - 2) :
                       /\ Cardinality(Window(i, w, s, o) \cap Window(i + 1, w, s, o)) = o
                       /\ (w - 1) \notin Window(i, w, s, o)
                 /\ (w - 1) \in Window(n - 1, w, s, o)

\* C1 witness: a run of ChunkText that produced at least three windows with a
\* positive overlap, the last one clipped
C1_Witness ==
    /\ pc = "done" /\ op = "ChunkText"
    /\ arg.overlap > 0
    /\ Len(result) >= 3
    /\ Len(Fields(result[Len(result)])) < arg.chunkSize

\* C1 witness of the example: 700 words, size 300, overlap 50, three windows
C1_Example ==
    /\ pc = "done" /\ op = "ChunkText"
    /\ arg.chunkSize = 300 /\ arg.overlap = 50
    /\ Len(Fields(arg.text)) = 700
    /\ Len(result) = 3
    /\ Len(Fields(result[3])) = 200

-----------------------------------------------------------------------------
(* SpecSearch: SearchSimilar applied to bounded index contents and queries *)

DocVectors == {<<2, 0>>, <<1, 1>>, <<0, 0>>}
QueryVectors == {<<1, 0>>, <<-1, 1>>, <<0, 0>>, <<1>>}

SearchDoc(i, v) ==
    [ID |-> [prefix |-> "page", page |-> 1, chunk |-> i - 1, digest |-> 0],
     Content |-> <<"a">>, Page |-> 1, Vector |-> v]

\* every index of at most MaxDocs records, and two indexes of five records
SearchStores ==
    UNION {{[i \in 1..n |-> SearchDoc(i, vs[i])] : vs \in [1..n -> DocVectors]} :
              n \in 0..MaxDocs}
    \cup {[i \in 1..5 |-> SearchDoc(i, vs[i])] :
              vs \in {<<<<0, 0>>, <<1, 1>>, <<2, 0>>, <<1, 1>>, <<0, 0>>>>,
                      <<<<1, 1>>, <<2, 0>>, <<2, 0>>, <<0, 0>>, <<1, 1>>>>}}

InitSearch ==
    /\ vectorStore \in {[Documents |-> d, ModelName |-> embedModel] : d \in SearchStores}
    /\ arg \in [resp : EmbeddingResponses(QueryVectors)
                       \cup {[kind |-> "ok", Embeddings |-> <<<<1, 0>>, <<0, 0>>>>]},
                topK : 0..(MaxDocs + 1)]
    /\ pc = "call"
    /\ op = "SearchSimilar"
    /\ result = [docs |-> <<>>, err |-> FALSE]
    /\ file = NoFile
    /\ pages = <<>> /\ pageNum = 0 /\ chunks = <<>> /\ chunkIdx = 0
    /\ runs = 0 /\ origin = <<>>
    /\ embedLog = <<>> /\ calls = <<>>

CallSearchSimilar ==
    /\ pc = "call"
    /\ op = "SearchSimilar"
    /\ result' \in SearchSimilar(vectorStore.Documents, arg.resp, arg.topK)
    /\ pc' = "done"
    /\ UNCHANGED <<vectorStore, file, op, pages, pageNum, chunks, chunkIdx,
                   runs, origin, embedLog, calls, arg>>

NextSearch == CallSearchSimilar

SpecSearch == InitSearch /\ [][NextSearch]_vars

\* the similarity of document d to the query of the call
QueryScore(d) == cosineSimilarity(GetEmbedding(arg.resp).vector, d.Vector)

\* C2: when the query's embedding request succeeds, SearchSimilar(query, k)
\* with k >= 0 returns exactly min(k, count) records of the index, none twice,
\* in non-increasing order of similarity to the query, every record left out
\* being no more similar than the last one returned; with k >= count it
\* returns all stored records.
C2_TopKRanked ==
    (pc = "done" /\ op = "SearchSimilar" /\ ~GetEmbedding(arg.resp).err) =>
        LET docs == vectorStore.Documents
            r    == result.docs
        IN  /\ ~result.err
            /\ Len(r) = Min(arg.topK, Len(docs))
            /\ \A i \in 1..Len(r) : \E j \in 1..Len(docs) : r[i] = docs[j]
            /\ \A i, j \in 1..Len(r) : i # j => r[i] # r[j]
            /\ \A i \in 1..(Len(r) - 1) :
                  ~ScoreGreater(QueryScore(r[i + 1]), QueryScore(r[i]))
            /\ \A j \in 1..Len(docs) :
                  (Len(r) > 0 /\ \A i \in 1..Len(r) : r[i] # docs[j])
                      => ~ScoreGreater(QueryScore(docs[j]), QueryScore(r[Len(r)]))
            /\ arg.topK >= Len(docs)
                  => {r[i] : i \in 1..Len(r)} = {docs[j] : j \in 1..Len(docs)}

\* C2 witness: five stored records of three different similarities, k = 4,
\* four records returned in an order other than the stored one
C2_Witness ==
    /\ pc = "done" /\ op = "SearchSimilar"
    /\ ~result.err
    /\ Len(vectorStore.Documents) = 5
    /\ arg.topK = 4
    /\ Len(result.docs) = 4
    /\ result.docs # SubSeq(vectorStore.Documents, 1, 4)
    /\ Cardinality({QueryScore(vectorStore.Documents[j]) : j \in 1..5}) = 3

-----------------------------------------------------------------------------
(* SpecChat: Chat applied to bounded index contents and backend answers *)

InitChat ==
    /\ vectorStore \in {[Documents |-> d, ModelName |-> embedModel] : d \in SearchStores}
    /\ arg \in [embResp : EmbeddingResponses(QueryVectors), genResp : GenerationResponses]
    /\ pc = "call"
    /\ op = "Chat"
    /\ result = [err |-> "nil", answer |-> "", sources |-> <<>>]
    /\ file = NoFile
    /\ pages = <<>> /\ pageNum = 0 /\ chunks = <<>> /\ chunkIdx = 0
    /\ runs = 0 /\ origin = <<>>
    /\ embedLog = <<>> /\ calls = <<>>

CallChat ==
    /\ pc = "call"
    /\ op = "Chat"
    /\ \E r \in Chat(vectorStore, arg.embResp, arg.genResp) :
          /\ result' = [err |-> r.err, answer |-> r.answer, sources |-> r.sources]
          /\ calls' = r.calls
    /\ pc' = "done"
    /\ UNCHANGED <<vectorStore, file, op, pages, pageNum, chunks, chunkIdx,
                   runs, origin, embedLog, arg>>

NextChat == CallChat

SpecChat == InitChat /\ [][NextChat]_vars

\* C10: on an empty index Chat returns the fixed message, no error, and
\* calls no backend; on a non-empty index it requests the query's embedding
\* before any generation, and if that request fails the call fails and no
\* generation is requested.
C10_ChatBackendCalls ==
    (pc = "done" /\ op = "Chat") =>
        IF Len(vectorStore.Documents) = 0
        THEN /\ result.answer = PleaseLoadMessage
             /\ result.err = "nil"
             /\ calls = <<>>
        ELSE /\ Len(calls) >= 1
             /\ calls[1] = "embed"
             /\ \A i \in 1..Len(calls) : calls[i] = "generate" => i > 1
             /\ GetEmbedding(arg.embResp).err =>
                   /\ result.err # "nil"
                   /\ \A i \in 1..Len(calls) : calls[i] # "generate"

\* C10 witness: Chat returned from an empty index while both backends would
\* have answered
C10_Witness ==
    /\ pc = "done" /\ op = "Chat"
    /\ Len(vectorStore.Documents) = 0
    /\ ~GetEmbedding(arg.embResp).err
    /\ ~GenerateResponse(arg.genResp).err
    /\ result.answer = PleaseLoadMessage

\* C10 witness of the other case: the embedding request failed on an index
\* that is not empty
C10_WitnessEmbedFailed ==
    /\ pc = "done" /\ op = "Chat"
    /\ Len(vectorStore.Documents) > 0
    /\ result.err = "embed"
    /\ calls = <<"embed">>

-----------------------------------------------------------------------------
(* SpecRoundTrip: the index is cleared, filled, saved and loaded *)

\* the records appended in SpecRoundTrip
RoundTripDocs ==
    {ZeroDocument,
     StoredDoc,
     [ID |-> PdfDocID(1, 2, <<"b", " ", "a">>), Content |-> <<"b", " ", "a">>,
      Page |-> 2, Vector |-> <<0, -3>>],
     [ID |-> TxtDocID(0, <<"a", "b">>), Content |-> <<"a", "b">>,
      Page |-> 1, Vector |-> <<-1, 0, 2>>]}

InitRoundTrip ==
    /\ vectorStore \in {NewVectorStore,
                        [Documents |-> <<StoredDoc, ZeroDocument>>,
                         ModelName |-> "mxbai-embed-large"]}
    /\ file \in {NoFile, [kind |-> "garbage"]}
    /\ pc = "replace"
    /\ op = "RoundTrip"
    /\ result = [err |-> FALSE, readOK |-> TRUE, saved |-> NewVectorStore]
    /\ arg = <<>>
    /\ pages = <<>> /\ pageNum = 0 /\ chunks = <<>> /\ chunkIdx = 0
    /\ runs = 0 /\ origin = <<>>
    /\ embedLog = <<>> /\ calls = <<>>

\* the reset of lines 217 and 449
RTReplaceAll ==
    /\ pc = "replace"
    /\ vectorStore' = StoreAfterRead(vectorStore, FALSE)
    /\ pc' = "append"
    /\ UNCHANGED <<file, op, result, pages, pageNum, chunks, chunkIdx, runs, origin,
                   embedLog, calls, arg>>

\* the append of lines 252 and 486
RTAppend ==
    /\ pc = "append"
    /\ Len(arg) < MaxAppend
    /\ \E d \in RoundTripDocs :
          /\ vectorStore' = [vectorStore EXCEPT !.Documents = Append(@, d)]
          /\ arg' = Append(arg, d)
    /\ UNCHANGED <<file, pc, op, result, pages, pageNum, chunks, chunkIdx, runs,
                   origin, embedLog, calls>>

\* the assignment of lines 260 and 492
RTSetModelName ==
    /\ pc = "append"
    /\ vectorStore.ModelName # embedModel
    /\ vectorStore' = [vectorStore EXCEPT !.ModelName = embedModel]
    /\ UNCHANGED <<file, pc, op, result, pages, pageNum, chunks, chunkIdx, runs,
                   origin, embedLog, calls, arg>>

\* SaveVectorStore
RTSave ==
    /\ pc = "append"
    /\ \E write \in WriteOutcomes :
          LET saved == SaveVectorStore(vectorStore, file, write)
          IN  /\ file' = saved.file
              /\ result' = [err |-> saved.err, readOK |-> TRUE, saved |-> vectorStore]
              /\ pc' = IF saved.err THEN "save_failed" ELSE "saved"
    /\ UNCHANGED <<vectorStore, op, pages, pageNum, chunks, chunkIdx, runs, origin,
                   embedLog, calls, arg>>

\* LoadVectorStore, into the index that was saved or into that of a new chatbot
RTLoad ==
    /\ pc = "saved"
    /\ \E target \in {vectorStore, NewVectorStore}, readOK \in BOOLEAN :
          LET l == LoadVectorStore(target, file, readOK)
          IN  /\ vectorStore' = l.store
              /\ result' = [err |-> l.err, readOK |-> readOK, saved |-> result.saved]
    /\ pc' = "loaded"
    /\ UNCHANGED <<file, op, pages, pageNum, chunks, chunkIdx, runs, origin,
                   embedLog, calls, arg>>

NextRoundTrip ==
    \/ RTReplaceAll
    \/ RTAppend
    \/ RTSetModelName
    \/ RTSave
    \/ RTLoad

SpecRoundTrip == InitRoundTrip /\ [][NextRoundTrip]_vars

\* C9: after the index is cleared, n records are appended, the index is
\* saved and then loaded (into the same or a fresh index), the loaded index
\* equals the saved one field for field, model_name included, and holds
\* exactly the n appended records.
C9_SaveLoadRoundTrip ==
    (pc = "loaded" /\ result.readOK) =>
        /\ ~result.err
        /\ vectorStore = result.saved
        /\ vectorStore.ModelName = result.saved.ModelName
        /\ Len(vectorStore.Documents) = Len(arg)
        /\ \A i \in 1..Len(arg) :
              /\ vectorStore.Documents[i].ID = arg[i].ID
              /\ vectorStore.Documents[i].Content = arg[i].Content
              /\ vectorStore.Documents[i].Page = arg[i].Page
              /\ vectorStore.Documents[i].Vector = arg[i].Vector

\* C9 witness: two different records with pages and vectors, saved under the
\* model name and loaded back
C9_Witness ==
    /\ pc = "loaded" /\ result.readOK
    /\ Len(arg) = 2
    /\ arg[1] # arg[2]
    /\ arg[1].Page > 0 /\ Len(arg[2].Vector) = 3
    /\ vectorStore.ModelName = embedModel

=============================================================================
